---- MODULE Spec2Model ----
(***************************************************************************)
(* Rule engine of the tile-matching game in src/app/game.js and of the     *)
(* store in store/gameStore.js (src/unnamed/part_000).                      *)
(*                                                                         *)
(* A board is a sequence of rows, each row a sequence of cells; a cell is  *)
(* 0 (the empty string '' of the source) or a tile kind 1..n.  Positions   *)
(* are the 0-based (row, col) of the source, written <<row, col>>.         *)
(***************************************************************************)
EXTENDS Integers, Sequences, FiniteSets, TLC

(* ------------------------------ bounds -------------------------------- *)
\* rows and columns of the boards the path-finder is exercised on
PathRows == 3
PathCols == 4
\* how far outside the board the reference path notion lets a corner lie
RefMargin == 2
\* a level of the model has 2 * NumPairs cells (20, 60 or 80 in the game)
NumPairs == 2
\* tile kinds of a level of the model (5, 12 or 15 in the game)
NumKinds == 2
\* the levels a game of the model may start at
NumLevels == 2
\* the time limit of a level of the model, in timer ticks
MaxTime == 1
\* cap of the model on the hearts a level starts with
MaxHearts == 1
\* rows, columns and tile kinds of the boards reflow is exercised on
GravRows == 3
GravCols == 3
GravKinds == 2
\* rows and columns of the wide boards the Split layout is exercised on
WideRows == 2
WideCols == 5

(* ------------------------------ helpers ------------------------------- *)
Min2(a, b) == IF a < b THEN a ELSE b
Max2(a, b) == IF a > b THEN a ELSE b
SetMin(S) == CHOOSE x \in S : \A y \in S : x <= y

\* board.length and board[0].length
Height(b) == Len(b)
Width(b) == Len(b[1])

\* board[row][col] for an in-board cell
Cell(b, row, col) == b[row + 1][col + 1]

\* the in-board positions of b in row-major order (the nested for loops)
RowMajor(b) ==
  IF Len(b) = 0 THEN << >>
  ELSE [i \in 1..(Height(b) * Width(b)) |->
          << (i - 1) \div Width(b), (i - 1) % Width(b) >>]

Positions(b) == {RowMajor(b)[i] : i \in DOMAIN RowMajor(b)}

\* row-major index of an in-board position
Index(b, p) == p[1] * Width(b) + p[2] + 1

\* number of non-empty cells
TileCount(b) == Cardinality({p \in Positions(b) : Cell(b, p[1], p[2]) # 0})

(* --------------------------- path finder ------------------------------ *)
NoPath == [isValid |-> FALSE, path |-> << >>]

\* mutant: cells off the board do not count as empty
isEmptyOnBoardOnly(row, col, boardToCheck) ==
  IF row < 0 \/ row >= Len(boardToCheck)
     \/ col < 0 \/ col >= Len(boardToCheck[1])
  THEN FALSE
  ELSE Cell(boardToCheck, row, col) = 0

isEmpty(row, col, boardToCheck) ==
  IF row < 0 \/ row >= Len(boardToCheck)
     \/ col < 0 \/ col >= Len(boardToCheck[1])
  THEN TRUE
  ELSE Cell(boardToCheck, row, col) = 0

findStraightPath(r1, c1, r2, c2, boardToCheck) ==
  IF r1 = r2 THEN
    LET minCol == Min2(c1, c2)
        maxCol == Max2(c1, c2)
    IN IF \A col \in (minCol + 1)..(maxCol - 1) : isEmpty(r1, col, boardToCheck)
       THEN [isValid |-> TRUE,
             path |-> [i \in 1..Max2(0, maxCol - minCol - 1) |-> <<r1, minCol + i>>]]
       ELSE NoPath
  ELSE IF c1 = c2 THEN
    LET minRow == Min2(r1, r2)
        maxRow == Max2(r1, r2)
    IN IF \A row \in (minRow + 1)..(maxRow - 1) : isEmpty(row, c1, boardToCheck)
       THEN [isValid |-> TRUE,
             path |-> [i \in 1..Max2(0, maxRow - minRow - 1) |-> <<minRow + i, c1>>]]
       ELSE NoPath
  ELSE NoPath

\* [...first.path, { row: rMid, col: cMid }, ...second.path] when both parts
\* are valid, else no path
JoinPaths(first, rMid, cMid, second) ==
  IF first.isValid /\ second.isValid
  THEN [isValid |-> TRUE, path |-> first.path \o << <<rMid, cMid>> >> \o second.path]
  ELSE NoPath

\* the first valid of two attempts made in this order, else no path
FirstValid(attempt1, attempt2) ==
  IF attempt1.isValid THEN attempt1
  ELSE IF attempt2.isValid THEN attempt2
  ELSE NoPath

checkLPath(r1, c1, rMid, cMid, r2, c2, boardToCheck) ==
  IF ~isEmpty(rMid, cMid, boardToCheck) THEN NoPath
  ELSE JoinPaths(findStraightPath(r1, c1, rMid, cMid, boardToCheck), rMid, cMid,
                 findStraightPath(rMid, cMid, r2, c2, boardToCheck))

\* mutant: only the first L shape, through (r1, c2), is tried
findOneCornerPathFirstOnly(r1, c1, r2, c2, boardToCheck) ==
  checkLPath(r1, c1, r1, c2, r2, c2, boardToCheck)

\* path 1 turns at (r1, c2), path 2 at (r2, c1)
findOneCornerPath(r1, c1, r2, c2, boardToCheck) ==
  FirstValid(checkLPath(r1, c1, r1, c2, r2, c2, boardToCheck),
             checkLPath(r1, c1, r2, c1, r2, c2, boardToCheck))

\* the three combinations checkTwoCornerPath tries in order, given the
\* straight and the L-shaped parts on either side of the mid cell
TwoCornerCombinations(straightPath1, straightPath2, lPath1, lPath2, rMid, cMid) ==
  FirstValid(JoinPaths(straightPath1, rMid, cMid, straightPath2),
             FirstValid(JoinPaths(lPath1, rMid, cMid, straightPath2),
                        JoinPaths(straightPath1, rMid, cMid, lPath2)))

checkTwoCornerPath(r1, c1, rMid, cMid, r2, c2, boardToCheck) ==
  IF ~isEmpty(rMid, cMid, boardToCheck) THEN NoPath
  ELSE TwoCornerCombinations(findStraightPath(r1, c1, rMid, cMid, boardToCheck),
                             findStraightPath(rMid, cMid, r2, c2, boardToCheck),
                             findOneCornerPath(r1, c1, rMid, cMid, boardToCheck),
                             findOneCornerPath(rMid, cMid, r2, c2, boardToCheck),
                             rMid, cMid)

\* mutant: the strips outside the board are not searched
MidCandidatesInside(boardToCheck) ==
  SelectSeq(RowMajor(boardToCheck), LAMBDA p : isEmpty(p[1], p[2], boardToCheck))

\* the mid cells findTwoCornerPath tries, in the order it tries them: the
\* empty in-board cells in row-major order, then the strips one cell beyond
\* the top, bottom, left and right edges
MidCandidates(boardToCheck) ==
  LET boardHeight == Height(boardToCheck)
      boardWidth == Width(boardToCheck)
      inside == SelectSeq(RowMajor(boardToCheck),
                          LAMBDA p : isEmpty(p[1], p[2], boardToCheck))
      top == [i \in 1..(boardWidth + 2) |-> <<-1, i - 2>>]
      bottom == [i \in 1..(boardWidth + 2) |-> <<boardHeight, i - 2>>]
      left == [i \in 1..(boardHeight + 2) |-> <<i - 2, -1>>]
      right == [i \in 1..(boardHeight + 2) |-> <<i - 2, boardWidth>>]
  IN inside \o top \o bottom \o left \o right

\* checkTwoCornerPath through the mid cell mids[i]
TwoCornerVia(r1, c1, r2, c2, boardToCheck, mids, i) ==
  checkTwoCornerPath(r1, c1, mids[i][1], mids[i][2], r2, c2, boardToCheck)

\* the result for the first candidate, in the order of mids, that gives a
\* valid path
FirstTwoCornerPath(r1, c1, r2, c2, boardToCheck, mids) ==
  IF \A i \in DOMAIN mids : ~TwoCornerVia(r1, c1, r2, c2, boardToCheck, mids, i).isValid
  THEN NoPath
  ELSE TwoCornerVia(r1, c1, r2, c2, boardToCheck, mids,
         SetMin({i \in DOMAIN mids :
                   TwoCornerVia(r1, c1, r2, c2, boardToCheck, mids, i).isValid}))

findTwoCornerPath(r1, c1, r2, c2, boardToCheck) ==
  FirstTwoCornerPath(r1, c1, r2, c2, boardToCheck, MidCandidates(boardToCheck))

\* mutant: the two-corner stage comes before the one-corner stage
StagesTwoCornerFirst(straightPath, oneCornerPath, twoCornerPath) ==
  IF straightPath.isValid
  THEN [isValid |-> TRUE, turns |-> 0, path |-> straightPath.path]
  ELSE IF twoCornerPath.isValid
  THEN [isValid |-> TRUE, turns |-> 2, path |-> twoCornerPath.path]
  ELSE IF oneCornerPath.isValid
  THEN [isValid |-> TRUE, turns |-> 1, path |-> oneCornerPath.path]
  ELSE [isValid |-> FALSE, turns |-> -1, path |-> << >>]

\* the result findPath builds from its three stages, first success wins
Stages(straightPath, oneCornerPath, twoCornerPath) ==
  IF straightPath.isValid
  THEN [isValid |-> TRUE, turns |-> 0, path |-> straightPath.path]
  ELSE IF oneCornerPath.isValid
  THEN [isValid |-> TRUE, turns |-> 1, path |-> oneCornerPath.path]
  ELSE IF twoCornerPath.isValid
  THEN [isValid |-> TRUE, turns |-> 2, path |-> twoCornerPath.path]
  ELSE [isValid |-> FALSE, turns |-> -1, path |-> << >>]

\* tile1 and tile2 are positions: findPath reads only their row and col
findPath(tile1, tile2, boardToCheck) ==
  Stages(findStraightPath(tile1[1], tile1[2], tile2[1], tile2[2], boardToCheck),
         findOneCornerPath(tile1[1], tile1[2], tile2[1], tile2[2], boardToCheck),
         findTwoCornerPath(tile1[1], tile1[2], tile2[1], tile2[2], boardToCheck))

(* ------------------------- reference path notion ---------------------- *)
\* A legal path, stated without the search: a rectilinear walk from A to B
\* with exactly 0, 1 or 2 right-angle turns whose cells other than A and B
\* are empty in-board cells or off-board cells.  Corners may lie up to
\* RefMargin cells outside the board.
Free(p, b) ==
  \/ p[1] < 0 \/ p[1] >= Height(b) \/ p[2] < 0 \/ p[2] >= Width(b)
  \/ Cell(b, p[1], p[2]) = 0

ExtRows(b) == (0 - RefMargin)..(Height(b) - 1 + RefMargin)
ExtCols(b) == (0 - RefMargin)..(Width(b) - 1 + RefMargin)

\* p and q differ in the column only / in the row only
Hor(p, q) == p[1] = q[1] /\ p[2] # q[2]
Ver(p, q) == p[2] = q[2] /\ p[1] # q[1]

\* every cell strictly between the aligned cells p and q is free
Clear(p, q, b) ==
  /\ p[1] = q[1] =>
       \A c \in (Min2(p[2], q[2]) + 1)..(Max2(p[2], q[2]) - 1) : Free(<<p[1], c>>, b)
  /\ p[2] = q[2] =>
       \A r \in (Min2(p[1], q[1]) + 1)..(Max2(p[1], q[1]) - 1) : Free(<<r, p[2]>>, b)

Legal0(A, B, b) == (Hor(A, B) \/ Ver(A, B)) /\ Clear(A, B, b)

Legal1(A, B, b) ==
  \E P \in {<<A[1], B[2]>>, <<B[1], A[2]>>} :
    /\ Free(P, b)
    /\ (Hor(A, P) /\ Ver(P, B)) \/ (Ver(A, P) /\ Hor(P, B))
    /\ Clear(A, P, b) /\ Clear(P, B, b)

Legal2(A, B, b) ==
  \/ \E c \in ExtCols(b) :
       LET P == <<A[1], c>>
           Q == <<B[1], c>>
       IN /\ Hor(A, P) /\ Ver(P, Q) /\ Hor(Q, B)
          /\ Free(P, b) /\ Free(Q, b)
          /\ Clear(A, P, b) /\ Clear(P, Q, b) /\ Clear(Q, B, b)
  \/ \E r \in ExtRows(b) :
       LET P == <<r, A[2]>>
           Q == <<r, B[2]>>
       IN /\ Ver(A, P) /\ Hor(P, Q) /\ Ver(Q, B)
          /\ Free(P, b) /\ Free(Q, b)
          /\ Clear(A, P, b) /\ Clear(P, Q, b) /\ Clear(Q, B, b)

\* least number of turns of a legal path, -1 when there is none
MinTurns(A, B, b) ==
  IF Legal0(A, B, b) THEN 0
  ELSE IF Legal1(A, B, b) THEN 1
  ELSE IF Legal2(A, B, b) THEN 2
  ELSE -1

(* --------------------------- gravity / reflow ------------------------- *)
LAYOUTS == <<"Static", "Left", "Right", "Up", "Down", "Split">>

NonEmpty(seq) == SelectSeq(seq, LAMBDA t : t # 0)

\* column col (0-based) of b, top to bottom
Column(b, col) == [r \in 1..Height(b) |-> b[r][col + 1]]

\* mutant: the index is taken one too far
TileOrEmptyOffByOne(tiles, i) == IF i + 1 >= 0 /\ i + 1 < Len(tiles) THEN tiles[i + 2] ELSE 0

\* rowTiles[i] || '' for a 0-based index i
TileOrEmpty(tiles, i) == IF i >= 0 /\ i < Len(tiles) THEN tiles[i + 1] ELSE 0

\* mutant: the left half takes the smaller part of an odd number of tiles
SplitRowFloorLeft(row) ==
  LET rowTiles == NonEmpty(row)
      cols == Len(row)
      n == Len(rowTiles)
      half == n \div 2
      leftTiles == SubSeq(rowTiles, 1, half)
      rightTiles == SubSeq(rowTiles, half + 1, n)
  IN [c \in 1..cols |->
        IF c - 1 >= cols - Len(rightTiles) /\ c - 1 - (cols - Len(rightTiles)) < Len(rightTiles)
        THEN rightTiles[c - (cols - Len(rightTiles))]
        ELSE IF c <= Len(leftTiles) THEN leftTiles[c]
        ELSE 0]

SplitRow(row) ==
  LET rowTiles == NonEmpty(row)
      cols == Len(row)
      n == Len(rowTiles)
      half == (n + 1) \div 2
      leftTiles == SubSeq(rowTiles, 1, half)
      rightTiles == SubSeq(rowTiles, half + 1, n)
  IN [c \in 1..cols |->
        IF c - 1 >= cols - Len(rightTiles) /\ c - 1 - (cols - Len(rightTiles)) < Len(rightTiles)
        THEN rightTiles[c - (cols - Len(rightTiles))]
        ELSE IF c <= Len(leftTiles) THEN leftTiles[c]
        ELSE 0]

\* mutant: Down fills each column from the top, as Up does
applyGravityEffectDownAsUp(b, layoutType) ==
  LET rows == Height(b)
      cols == Width(b)
  IN CASE layoutType = "Static" -> b
       [] layoutType = "Left" ->
            [r \in 1..rows |->
               [c \in 1..cols |-> TileOrEmpty(NonEmpty(b[r]), c - 1)]]
       [] layoutType = "Right" ->
            [r \in 1..rows |->
               [c \in 1..cols |->
                  TileOrEmpty(NonEmpty(b[r]), Len(NonEmpty(b[r])) - cols + (c - 1))]]
       [] layoutType \in {"Up", "Down"} ->
            [r \in 1..rows |->
               [c \in 1..cols |-> TileOrEmpty(NonEmpty(Column(b, c - 1)), r - 1)]]
       [] layoutType = "Split" -> [r \in 1..rows |-> SplitRow(b[r])]
       [] OTHER -> b

applyGravityEffect(b, layoutType) ==
  LET rows == Height(b)
      cols == Width(b)
  IN CASE layoutType = "Static" -> b
       [] layoutType = "Left" ->
            [r \in 1..rows |->
               [c \in 1..cols |-> TileOrEmpty(NonEmpty(b[r]), c - 1)]]
       [] layoutType = "Right" ->
            [r \in 1..rows |->
               [c \in 1..cols |->
                  TileOrEmpty(NonEmpty(b[r]), Len(NonEmpty(b[r])) - cols + (c - 1))]]
       [] layoutType = "Up" ->
            [r \in 1..rows |->
               [c \in 1..cols |-> TileOrEmpty(NonEmpty(Column(b, c - 1)), r - 1)]]
       [] layoutType = "Down" ->
            [r \in 1..rows |->
               [c \in 1..cols |->
                  TileOrEmpty(NonEmpty(Column(b, c - 1)),
                              Len(NonEmpty(Column(b, c - 1))) - rows + (r - 1))]]
       [] layoutType = "Split" -> [r \in 1..rows |-> SplitRow(b[r])]
       [] OTHER -> b

(* --------------------------- solvability oracle ----------------------- *)
\* the non-empty cells of b in row-major order (the tiles array)
Tiles(b) == SelectSeq(RowMajor(b), LAMBDA p : Cell(b, p[1], p[2]) # 0)

\* some pair tiles[i], tiles[j], i < j, of one kind is connected by findPath
\* evaluated on pathBoard
PairConnectable(b, pathBoard) ==
  LET tiles == Tiles(b)
  IN \E i \in DOMAIN tiles : \E j \in DOMAIN tiles :
       /\ i < j
       /\ Cell(b, tiles[i][1], tiles[i][2]) = Cell(b, tiles[j][1], tiles[j][2])
       /\ findPath(tiles[i], tiles[j], pathBoard).isValid

\* isBoardSolvable(b) calls findPath(tile1, tile2) with no third argument, so
\* findPath falls back on its default, the component's current board: that
\* board is the second parameter here
isBoardSolvable(b, componentBoard) == PairConnectable(b, componentBoard)

\* mutant: the search for a connectable pair is left out
isDeadlockedWithoutSearch(currentBoard) == Len(Tiles(currentBoard)) > 0

\* isDeadlocked passes its own argument on to findPath
isDeadlocked(currentBoard) ==
  IF PairConnectable(currentBoard, currentBoard) THEN FALSE
  ELSE Len(Tiles(currentBoard)) > 0

isLevelComplete(currentBoard) ==
  \A p \in Positions(currentBoard) : Cell(currentBoard, p[1], p[2]) = 0

(* ------------------------------ the store ----------------------------- *)
\* the inventory the game screen is entered with (the store loads it from storage)
InitHint == 1
InitBomb == 1
InitShuffle == 1

getLevelLayout(level) == LAYOUTS[((level - 1) % 6) + 1]

\* size and kinds of a level: the model plays every level on the small board
getLevelSize(level) == 2 * NumPairs
getLevelKinds(level) == NumKinds

calculateHearts(level) == Min2(Max2(3, 10 - ((level - 1) \div 12)), MaxHearts)
calculateTimeLimit(level) == MaxTime

\* mutant: the first factor pair is returned instead of the last
getBoardDimensionsFirstFactor(size) == <<1, size>>

\* the last factor pair [i, size / i] with i * i <= size
getBoardDimensions(size) ==
  LET i == CHOOSE k \in 1..size :
             /\ k * k <= size /\ size % k = 0
             /\ \A m \in 1..size : (m * m <= size /\ size % m = 0) => m <= k
  IN <<i, size \div i>>

\* mutant: every pair gets the first kind
PairTilesOneKind(size, kinds) == [i \in 1..(2 * (size \div 2)) |-> 1]

\* the tiles array before the shuffle: pair i has kind i % kinds, twice
PairTiles(size, kinds) ==
  [i \in 1..(2 * (size \div 2)) |-> (((i - 1) \div 2) % kinds) + 1]

Count(seq, k) == Cardinality({i \in DOMAIN seq : seq[i] = k})
Range(seq) == {seq[i] : i \in DOMAIN seq}

\* every order a Fisher-Yates shuffle can leave the sequence in
Shuffles(seq) ==
  {s \in [DOMAIN seq -> Range(seq)] : \A k \in Range(seq) : Count(s, k) = Count(seq, k)}

\* fill a rows x cols board row-major with the tiles, '' once they run out
Pack(tiles, rows, cols) ==
  [r \in 1..rows |-> [c \in 1..cols |-> TileOrEmpty(tiles, (r - 1) * cols + (c - 1))]]

\* the boards generateGameBoard(size, kinds) can return
generateGameBoard(size, kinds) ==
  LET dims == getBoardDimensions(size)
  IN {Pack(s, dims[1], dims[2]) : s \in Shuffles(PairTiles(size, kinds))}

\* board with the cells of the set targets cleared
Cleared(b, targets) ==
  [r \in 1..Height(b) |->
     [c \in 1..Width(b) |-> IF <<r - 1, c - 1>> \in targets THEN 0 ELSE b[r][c]]]

\* the non-empty tiles of b row by row (remainingTiles / flatten)
Flatten(b) == [i \in DOMAIN Tiles(b) |-> Cell(b, Tiles(b)[i][1], Tiles(b)[i][2])]

(* ------------------------------- state -------------------------------- *)
VARIABLES
  currentLevel,       \* store: currentLevel
  maxLevel,           \* store: maxLevel
  bambooBalance,      \* store: bambooBalance
  inventory,          \* store: inventory
  gameState,          \* store: gameState (isPlaying, timeRemaining, heartsRemaining, board)
  selectedTiles,      \* component state: the tiles selected so far
  currentLevelBamboo, \* component state: bamboo earned in this level
  showModal,          \* component state: the modal shown, "none" for null
  bombJobs,           \* bomb uses whose delayed callbacks have not all run
  lastMatch,          \* history: the removal the last step made, if it made one
  inp,                \* the inputs of the function under test (function specifications)
  out                 \* the last call of the function under test and its result

vars == <<currentLevel, maxLevel, bambooBalance, inventory, gameState, selectedTiles,
          currentLevelBamboo, showModal, bombJobs, lastMatch, inp, out>>

storeVars == <<currentLevel, maxLevel, bambooBalance, inventory, gameState>>
screenVars == <<selectedTiles, currentLevelBamboo, showModal, bombJobs, lastMatch>>
gameVars == <<currentLevel, maxLevel, bambooBalance, inventory, gameState, selectedTiles,
              currentLevelBamboo, showModal, bombJobs, lastMatch>>

NoMatch == [kind |-> "none"]
NoCall == [op |-> "none"]

\* the component's board, timeRemaining and heartsRemaining
board == gameState.board
timeRemaining == gameState.timeRemaining
heartsRemaining == gameState.heartsRemaining

\* the gameState values startLevel(levelId) can set
startLevel(levelId) ==
  {[isPlaying |-> TRUE,
    timeRemaining |-> calculateTimeLimit(levelId),
    heartsRemaining |-> calculateHearts(levelId),
    board |-> b] :
     b \in generateGameBoard(getLevelSize(levelId), getLevelKinds(levelId))}

\* the modal the mount effects leave: the gravity tip of a level with
\* gravity, possibly the tutorial on level 1
MountModals(level) ==
  IF getLevelLayout(level) # "Static" THEN {"gravity-tip"}
  ELSE IF level = 1 THEN {"none", "tutorial"}
  ELSE {"none"}

\* a mounted game screen whose mount effect has started the current level
LevelStarted ==
  /\ currentLevel \in 1..NumLevels
  /\ maxLevel = currentLevel
  /\ bambooBalance = 0
  /\ inventory = [hint |-> InitHint, bomb |-> InitBomb, shuffle |-> InitShuffle]
  /\ gameState \in startLevel(currentLevel)
  /\ selectedTiles = << >>
  /\ currentLevelBamboo = 0
  /\ showModal \in MountModals(currentLevel)
  /\ bombJobs = << >>
  /\ lastMatch = NoMatch

Init ==
  /\ LevelStarted
  /\ inp = NoCall
  /\ out = NoCall

(* ------------------------------ matching ------------------------------ *)
earnedBambooFor(pathResult) == pathResult.turns + 1

\* completeLevel(levelId, earnedBamboo, time) of the store, isFirstTime = true;
\* gs is the gameState the store holds when it runs
completeLevel(levelId, earnedBamboo, gs) ==
  /\ maxLevel' = Max2(maxLevel, levelId)
  /\ bambooBalance' = bambooBalance + earnedBamboo
  /\ currentLevel' = Max2(maxLevel, levelId) + 1
  /\ gameState' = [gs EXCEPT !.isPlaying = FALSE]

\* handleSuccessfulMatch(tile1, tile2); handleLevelComplete passes the
\* currentLevelBamboo of the render the handler runs in
handleSuccessfulMatch(tile1, tile2) ==
  LET p1 == <<tile1.row, tile1.col>>
      p2 == <<tile2.row, tile2.col>>
      newBoard == applyGravityEffect(Cleared(board, {p1, p2}), getLevelLayout(currentLevel))
      pathResult == findPath(p1, p2, board)
      earnedBamboo == earnedBambooFor(pathResult)
      written == [gameState EXCEPT !.board = newBoard]
  IN /\ currentLevelBamboo' = currentLevelBamboo + earnedBamboo
     /\ selectedTiles' = << >>
     /\ lastMatch' = [kind |-> "match", tile1 |-> tile1, tile2 |-> tile2,
                      board |-> board, earned |-> earnedBamboo]
     /\ IF isLevelComplete(newBoard)
        THEN /\ completeLevel(currentLevel, currentLevelBamboo, written)
             /\ showModal' = "complete"
        ELSE /\ gameState' = written
             /\ showModal' = IF isDeadlocked(newBoard) THEN "deadlock" ELSE showModal
             /\ UNCHANGED <<currentLevel, maxLevel, bambooBalance>>
     /\ UNCHANGED <<inventory, bombJobs>>

handleInvalidMatch ==
  LET newHearts == heartsRemaining - 1
  IN /\ gameState' = [gameState EXCEPT !.heartsRemaining = newHearts]
     /\ selectedTiles' = << >>
     /\ showModal' = IF newHearts <= 0 THEN "failed" ELSE showModal
     /\ lastMatch' = NoMatch
     /\ UNCHANGED <<currentLevel, maxLevel, bambooBalance, inventory,
                    currentLevelBamboo, bombJobs>>

handleTilePress(row, col) ==
  /\ showModal = "none"
  /\ Cell(board, row, col) # 0
  /\ Len(selectedTiles) <= 1
  /\ LET tilePos == [row |-> row, col |-> col, type |-> Cell(board, row, col)]
     IN IF Len(selectedTiles) = 0
        THEN /\ selectedTiles' = <<tilePos>>
             /\ lastMatch' = NoMatch
             /\ UNCHANGED <<storeVars, currentLevelBamboo, showModal, bombJobs>>
        ELSE LET firstTile == selectedTiles[1]
             IN IF firstTile.row = row /\ firstTile.col = col
                THEN /\ selectedTiles' = << >>
                     /\ lastMatch' = NoMatch
                     /\ UNCHANGED <<storeVars, currentLevelBamboo, showModal, bombJobs>>
                ELSE IF firstTile.type = tilePos.type
                THEN IF findPath(<<firstTile.row, firstTile.col>>, <<row, col>>, board).isValid
                     THEN handleSuccessfulMatch(firstTile, tilePos)
                     ELSE handleInvalidMatch
                ELSE handleInvalidMatch
  /\ UNCHANGED <<inp, out>>

(* -------------------------------- tools ------------------------------- *)
getBombRemoveCount(levelSize) ==
  IF levelSize = 20 THEN 2
  ELSE IF levelSize = 60 THEN 4
  ELSE IF levelSize = 80 THEN 6
  ELSE 2

\* the position sets selectRandomSubset(tiles, k) / selectRandomTilesToRemove can return
RandomSubsets(b, k) ==
  LET tiles == {Tiles(b)[i] : i \in DOMAIN Tiles(b)}
  IN IF k <= 0 THEN {{}}
     ELSE {S \in SUBSET tiles : Cardinality(S) = Min2(k, Cardinality(tiles))}

simulateRemovalAndGravity(sourceBoard, targets, layout) ==
  applyGravityEffect(Cleared(sourceBoard, targets), layout)

\* mutant: the first sampled subset is returned without the solvability test
selectBombTargetsUntested(currentBoard, removeCount, layout, componentBoard) ==
  IF Len(Tiles(currentBoard)) = 0 THEN {[found |-> TRUE, targets |-> {}]}
  ELSE {[found |-> TRUE, targets |-> c] : c \in RandomSubsets(currentBoard, removeCount)}

\* what selectBombTargetsEnsuringSolvable(currentBoard, removeCount) can return:
\* a sampled subset whose simulated board passes isBoardSolvable, or null
\* (found = FALSE) when every one of the maxAttempts samples fails
selectBombTargetsEnsuringSolvable(currentBoard, removeCount, layout, componentBoard) ==
  LET candidates == RandomSubsets(currentBoard, removeCount)
      passing == {c \in candidates :
                    isBoardSolvable(simulateRemovalAndGravity(currentBoard, c, layout),
                                    componentBoard)}
  IN IF Len(Tiles(currentBoard)) = 0 THEN {[found |-> TRUE, targets |-> {}]}
     ELSE {[found |-> TRUE, targets |-> c] : c \in passing}
          \cup (IF candidates \ passing # {} THEN {[found |-> FALSE, targets |-> {}]}
                ELSE {})

\* tilesToRemove of the bomb case: the selector's answer, or a random subset
\* when the selector returned null
BombTargets(currentBoard, removeCount, layout, componentBoard) ==
  LET answers == selectBombTargetsEnsuringSolvable(currentBoard, removeCount,
                                                   layout, componentBoard)
  IN {a.targets : a \in {x \in answers : x.found}}
     \cup (IF \E a \in answers : ~a.found
           THEN RandomSubsets(currentBoard, removeCount) ELSE {})

\* the boards one shuffle of the tiles of b can give: the tiles in any order,
\* packed row-major from the first cell, then reflowed
ShuffledBoards(b, layout) ==
  {applyGravityEffect(Pack(s, Height(b), Width(b)), layout) : s \in Shuffles(Flatten(b))}

\* what shuffleUntilSolvable(currentBoard, maxTries) can return: a shuffled
\* board that passes isBoardSolvable, or currentBoard when every try fails
shuffleUntilSolvable(currentBoard, layout, componentBoard) ==
  LET tries == ShuffledBoards(currentBoard, layout)
      passing == {t \in tries : isBoardSolvable(t, componentBoard)}
  IN passing \cup (IF tries \ passing # {} THEN {currentBoard} ELSE {})

\* useTool(toolType) of the store
useTool(toolType) ==
  /\ inventory[toolType] > 0
  /\ inventory' = [inventory EXCEPT ![toolType] = @ - 1]

\* the tool buttons lie under any modal that is shown
UseHint ==
  /\ showModal = "none"
  /\ useTool("hint")
  /\ lastMatch' = NoMatch
  /\ UNCHANGED <<currentLevel, maxLevel, bambooBalance, gameState, selectedTiles,
                 currentLevelBamboo, showModal, bombJobs, inp, out>>

\* handleUseTool('shuffle'), from the tool bar or from a deadlock modal,
\* whose button closes the modal afterwards
UseShuffle ==
  /\ showModal \in {"none", "deadlock", "view-deadlock"}
  /\ useTool("shuffle")
  /\ \E shuffledBoard \in ShuffledBoards(board, getLevelLayout(currentLevel)) :
       gameState' = [gameState EXCEPT !.board = shuffledBoard,
                                      !.timeRemaining = timeRemaining + 3]
  /\ showModal' = "none"
  /\ lastMatch' = NoMatch
  /\ UNCHANGED <<currentLevel, maxLevel, bambooBalance, selectedTiles,
                 currentLevelBamboo, bombJobs, inp, out>>

\* handleUseTool('bomb'): picks the targets and starts the 400 ms timer; the
\* callbacks that follow run in the closure of this render
UseBomb ==
  /\ showModal = "none"
  /\ useTool("bomb")
  /\ \E tilesToRemove \in BombTargets(board, getBombRemoveCount(getLevelSize(currentLevel)),
                                      getLevelLayout(currentLevel), board) :
       bombJobs' = IF tilesToRemove # {}
                   THEN Append(bombJobs,
                               [stage |-> "marked", targets |-> tilesToRemove,
                                gameState |-> gameState, currentLevel |-> currentLevel,
                                currentLevelBamboo |-> currentLevelBamboo])
                   ELSE bombJobs
  /\ lastMatch' = NoMatch
  /\ UNCHANGED <<currentLevel, maxLevel, bambooBalance, gameState, selectedTiles,
                 currentLevelBamboo, showModal, inp, out>>

RemoveAt(seq, i) == SubSeq(seq, 1, i - 1) \o SubSeq(seq, i + 1, Len(seq))

\* the 400 ms timer adds the spark animation ("marked" to "spark"); the end
\* of the animation (handleSparkAnimationComplete) calls
\* executeBombDestruction, which starts the 500 ms timer ("spark" to
\* "destroy").  The 500 ms callback only copies the closure's board and
\* clears the highlight before it starts the 300 ms timer: it changes no
\* variable of the model, so "destroy" lasts until BombGravity runs
BombAdvance(i) ==
  /\ i \in DOMAIN bombJobs
  /\ bombJobs[i].stage \in {"marked", "spark"}
  /\ bombJobs' = [bombJobs EXCEPT ![i].stage = IF @ = "marked" THEN "spark" ELSE "destroy"]
  /\ lastMatch' = NoMatch
  /\ UNCHANGED <<storeVars, selectedTiles, currentLevelBamboo, showModal, inp, out>>

\* the 300 ms timer of executeBombDestruction: reflow, repair a deadlock,
\* write the board into the closure's gameState, complete the level
BombGravity(i) ==
  /\ i \in DOMAIN bombJobs
  /\ bombJobs[i].stage = "destroy"
  /\ LET job == bombJobs[i]
         layout == getLevelLayout(job.currentLevel)
         reflowed == applyGravityEffect(Cleared(job.gameState.board, job.targets), layout)
         finals == IF isDeadlocked(reflowed)
                   THEN shuffleUntilSolvable(reflowed, layout, job.gameState.board)
                   ELSE {reflowed}
     IN \E finalBoard \in finals :
          LET written == [job.gameState EXCEPT !.board = finalBoard]
          IN IF isLevelComplete(finalBoard)
             THEN /\ completeLevel(job.currentLevel, job.currentLevelBamboo, written)
                  /\ showModal' = "complete"
             ELSE /\ gameState' = written
                  /\ UNCHANGED <<currentLevel, maxLevel, bambooBalance, showModal>>
  /\ bombJobs' = RemoveAt(bombJobs, i)
  /\ lastMatch' = NoMatch
  /\ UNCHANGED <<inventory, selectedTiles, currentLevelBamboo, inp, out>>

(* --------------------------- timer and modals ------------------------- *)
\* the interval callback of the timer effect
TimerTick ==
  /\ timeRemaining > 0
  /\ showModal = "none"
  /\ LET newTime == timeRemaining - 1
     IN IF newTime <= 0
        THEN /\ gameState' = [gameState EXCEPT !.timeRemaining = 0]
             /\ showModal' = "failed"
        ELSE /\ gameState' = [gameState EXCEPT !.timeRemaining = newTime]
             /\ UNCHANGED showModal
  /\ lastMatch' = NoMatch
  /\ UNCHANGED <<currentLevel, maxLevel, bambooBalance, inventory, selectedTiles,
                 currentLevelBamboo, bombJobs, inp, out>>

\* handleRestart, offered by the pause, failed and deadlock modals; clearing
\* sparkAnimations drops the bomb jobs whose spark is on screen
handleRestart ==
  /\ showModal \in {"pause", "failed", "deadlock", "view-deadlock"}
  /\ selectedTiles' = << >>
  /\ currentLevelBamboo' = 0
  /\ bombJobs' = SelectSeq(bombJobs, LAMBDA j : j.stage # "spark")
  /\ gameState' \in startLevel(currentLevel)
  /\ showModal' = "none"
  /\ lastMatch' = NoMatch
  /\ UNCHANGED <<currentLevel, maxLevel, bambooBalance, inventory, inp, out>>

\* the buttons that only change the modal: pause, resume / got it / finish
\* tutorial, view board, back
SetModal ==
  /\ \/ showModal = "none" /\ showModal' = "pause"
     \/ showModal \in {"pause", "gravity-tip", "tutorial"} /\ showModal' = "none"
     \/ showModal = "deadlock" /\ showModal' = "view-deadlock"
     \/ showModal = "view-deadlock" /\ showModal' = "deadlock"
  /\ lastMatch' = NoMatch
  /\ UNCHANGED <<storeVars, selectedTiles, currentLevelBamboo, bombJobs, inp, out>>

Next ==
  \/ \E row \in 0..(Height(board) - 1) : \E col \in 0..(Width(board) - 1) :
       handleTilePress(row, col)
  \/ UseHint
  \/ UseShuffle
  \/ UseBomb
  \/ \E i \in DOMAIN bombJobs : BombAdvance(i)
  \/ \E i \in DOMAIN bombJobs : BombGravity(i)
  \/ TimerTick
  \/ handleRestart
  \/ SetModal

Spec == Init /\ [][Next]_vars

(* ------------------- function specifications: common ------------------ *)
\* the store as created, before any level is started (board: [])
StoreCreated ==
  /\ currentLevel = 1
  /\ maxLevel = 1
  /\ bambooBalance = 0
  /\ inventory = [hint |-> InitHint, bomb |-> InitBomb, shuffle |-> InitShuffle]
  /\ gameState = [isPlaying |-> FALSE, timeRemaining |-> 0, heartsRemaining |-> 0,
                  board |-> << >>]
  /\ selectedTiles = << >>
  /\ currentLevelBamboo = 0
  /\ showModal = "none"
  /\ bombJobs = << >>
  /\ lastMatch = NoMatch

\* all rows x cols boards with cells in 0..kinds
AllBoards(rows, cols, kinds) == [1..rows -> [1..cols -> 0..kinds]]

(* ------------------------ PathSpec: the path finder ------------------- *)
\* findPath reads emptiness only, so one tile kind gives every case
PathInit ==
  /\ StoreCreated
  /\ inp \in {[board |-> b] : b \in AllBoards(PathRows, PathCols, 1)}
  /\ out = NoCall

\* a second tile press on two distinct tiles: the path is computed, and for
\* a valid one the bamboo as handleSuccessfulMatch computes it
CallFindPath ==
  /\ out = NoCall
  /\ \E t1 \in Positions(inp.board) : \E t2 \in Positions(inp.board) :
       /\ t1 # t2
       /\ Cell(inp.board, t1[1], t1[2]) # 0
       /\ Cell(inp.board, t2[1], t2[2]) # 0
       /\ LET pathResult == findPath(t1, t2, inp.board)
          IN out' = [op |-> "findPath", tile1 |-> t1, tile2 |-> t2,
                     result |-> pathResult,
                     earnedBamboo |-> earnedBambooFor(pathResult)]
  /\ UNCHANGED <<gameVars, inp>>

PathNext == CallFindPath

PathSpec == PathInit /\ [][PathNext]_vars

\* C4: findPath reports a pair of distinct tiles connectable exactly when a
\* rectilinear path with at most two right-angle turns joins them through
\* empty or off-board cells only
C4_ValidIffLegalPath ==
  out.op = "findPath" =>
    (out.result.isValid <=> MinTurns(out.tile1, out.tile2, inp.board) >= 0)

\* a call on a pair that only a two-turn path around the outside connects
C4_Witness ==
  /\ out.op = "findPath"
  /\ out.result.isValid
  /\ MinTurns(out.tile1, out.tile2, inp.board) = 2
  /\ \A p \in Positions(inp.board) : Cell(inp.board, p[1], p[2]) # 0

\* C5: findPath gives the same isValid and the same turns for (A, B) and (B, A)
C5_Symmetric ==
  out.op = "findPath" =>
    LET back == findPath(out.tile2, out.tile1, inp.board)
    IN back.isValid = out.result.isValid /\ back.turns = out.result.turns

\* a one-corner call whose first corner (r1, c2) is blocked, so that the two
\* directions succeed through different checkLPath calls
C5_Witness ==
  /\ out.op = "findPath"
  /\ out.result.turns = 1
  /\ ~isEmpty(out.tile1[1], out.tile2[2], inp.board)

\* C6: the reported turns are the least number of turns of a legal path; with
\* no legal path the result is invalid with turns -1 and an empty path; the
\* bamboo of a valid match is turns + 1
C6_MinimalTurns ==
  out.op = "findPath" =>
    LET least == MinTurns(out.tile1, out.tile2, inp.board)
    IN /\ out.result.turns = least
       /\ least = -1 => (~out.result.isValid /\ out.result.path = << >>)
       /\ out.result.isValid => out.earnedBamboo = least + 1

\* a valid match whose pair has both a one-turn and a two-turn legal path
C6_Witness ==
  /\ out.op = "findPath"
  /\ out.result.turns = 1
  /\ out.earnedBamboo = 2
  /\ Legal2(out.tile1, out.tile2, inp.board)

(* ------------------------- GravitySpec: reflow ------------------------ *)
GravityInit ==
  /\ StoreCreated
  /\ inp \in {[board |-> b] : b \in AllBoards(GravRows, GravCols, GravKinds)}
  /\ out = NoCall

CallApplyGravityEffect ==
  /\ out = NoCall
  /\ \E i \in DOMAIN LAYOUTS :
       out' = [op |-> "applyGravityEffect", layoutType |-> LAYOUTS[i],
               result |-> applyGravityEffect(inp.board, LAYOUTS[i])]
  /\ UNCHANGED <<gameVars, inp>>

GravityNext == CallApplyGravityEffect

GravitySpec == GravityInit /\ [][GravityNext]_vars

\* C9: reflowing a reflowed board again under the same layout changes nothing
C9_Idempotent ==
  out.op = "applyGravityEffect" =>
    applyGravityEffect(out.result, out.layoutType) = out.result

\* a reflow that moved tiles of two kinds
C9_Witness ==
  /\ out.op = "applyGravityEffect"
  /\ out.layoutType = "Split"
  /\ out.result # inp.board
  /\ \E r \in 1..GravRows : out.result[r][1] = 1 /\ out.result[r][2] = 0
                            /\ out.result[r][GravCols] = 2

\* the cells 1..n of seq hold the tiles of orig in their order and the rest
\* are empty (atStart), or the same against the end of seq
Compacted(seq, orig, atStart) ==
  /\ Len(seq) = Len(orig)
  /\ NonEmpty(seq) = NonEmpty(orig)
  /\ \A i \in DOMAIN seq :
       seq[i] # 0 <=> IF atStart THEN i <= Len(NonEmpty(orig))
                      ELSE i > Len(seq) - Len(NonEmpty(orig))

\* C10: reflow keeps the dimensions; Static returns the board unchanged;
\* Left and Right keep each row's tiles in order, packed against that edge;
\* Up and Down do the same for each column
C10_CompactsPerMode ==
  out.op = "applyGravityEffect" =>
    LET b == inp.board
        res == out.result
        m == out.layoutType
    IN /\ Len(res) = Len(b)
       /\ \A r \in DOMAIN res : Len(res[r]) = Len(b[r])
       /\ m = "Static" => res = b
       /\ m = "Left" => \A r \in DOMAIN b : Compacted(res[r], b[r], TRUE)
       /\ m = "Right" => \A r \in DOMAIN b : Compacted(res[r], b[r], FALSE)
       /\ m = "Up" => \A c \in 0..(Width(b) - 1) :
                         Compacted(Column(res, c), Column(b, c), TRUE)
       /\ m = "Down" => \A c \in 0..(Width(b) - 1) :
                           Compacted(Column(res, c), Column(b, c), FALSE)

\* a Down reflow that moved tiles of two kinds within one column
C10_Witness ==
  /\ out.op = "applyGravityEffect"
  /\ out.layoutType = "Down"
  /\ \E c \in 0..(GravCols - 1) :
       /\ Column(inp.board, c)[1] = 1 /\ Column(inp.board, c)[2] = 2
       /\ Column(inp.board, c)[GravRows] = 0
       /\ Column(out.result, c)[1] = 0

(* ------------------ WideGravitySpec: reflow of wide rows -------------- *)
WideGravityInit ==
  /\ StoreCreated
  /\ inp \in {[board |-> b] : b \in AllBoards(WideRows, WideCols, GravKinds)}
  /\ out = NoCall

WideGravitySpec == WideGravityInit /\ [][GravityNext]_vars

\* C11: under Split a row holding the tiles t1..tn gets t1..t(ceil(n/2)) in
\* its first columns, the other floor(n/2) tiles in its last columns in
\* their order, and empty cells between; no tile is lost or duplicated
C11_SplitHalves ==
  out.op = "applyGravityEffect" /\ out.layoutType = "Split" =>
    \A r \in DOMAIN inp.board :
      LET t == NonEmpty(inp.board[r])
          n == Len(t)
          cols == Len(inp.board[r])
          nLeft == (n + 1) \div 2
          nRight == n \div 2
      IN /\ Len(out.result[r]) = cols
         /\ \A c \in 1..cols :
              out.result[r][c] = IF c <= nLeft THEN t[c]
                                 ELSE IF c > cols - nRight THEN t[nLeft + c - (cols - nRight)]
                                 ELSE 0

\* a Split reflow of a row of four tiles of two kinds that moved tiles
C11_Witness ==
  /\ out.op = "applyGravityEffect"
  /\ out.layoutType = "Split"
  /\ \E r \in DOMAIN inp.board :
       /\ Len(NonEmpty(inp.board[r])) = 4
       /\ inp.board[r][2] = 0
       /\ NonEmpty(inp.board[r])[3] # NonEmpty(inp.board[r])[4]
       /\ out.result[r][3] = 0

(* --------------- OracleSpec: the two solvability predicates ----------- *)
\* The bomb calls both predicates in the closure of the render it was used
\* in: selectBombTargetsEnsuringSolvable calls isBoardSolvable on the
\* simulated board, executeBombDestruction calls isDeadlocked on the board
\* with the targets cleared and reflowed.  Here the bomb is used at level
\* start.
OracleInit ==
  /\ LevelStarted
  /\ inp = NoCall
  /\ out = NoCall

CallIsBoardSolvable ==
  /\ out = NoCall
  /\ \E candidate \in RandomSubsets(board, getBombRemoveCount(getLevelSize(currentLevel))) :
       LET simulated == simulateRemovalAndGravity(board, candidate,
                                                  getLevelLayout(currentLevel))
       IN out' = [op |-> "isBoardSolvable", arg |-> simulated,
                  result |-> isBoardSolvable(simulated, board)]
  /\ UNCHANGED <<gameVars, inp>>

CallIsDeadlocked ==
  /\ out = NoCall
  /\ \E targets \in RandomSubsets(board, getBombRemoveCount(getLevelSize(currentLevel))) :
       LET finalBoard == applyGravityEffect(Cleared(board, targets),
                                            getLevelLayout(currentLevel))
       IN out' = [op |-> "isDeadlocked", arg |-> finalBoard,
                  result |-> isDeadlocked(finalBoard),
                  solvable |-> isBoardSolvable(finalBoard, board)]
  /\ UNCHANGED <<gameVars, inp>>

OracleNext == CallIsBoardSolvable \/ CallIsDeadlocked

OracleSpec == OracleInit /\ [][OracleNext]_vars

\* C7: isBoardSolvable(b) is true exactly when b has two tiles of one kind
\* that findPath connects on b itself, whatever the current board is
C7_SolvableOfArgumentAlone ==
  out.op = "isBoardSolvable" => (out.result <=> PairConnectable(out.arg, out.arg))

\* C8: isDeadlocked(b) equals (not isBoardSolvable(b)) and (b has a tile)
C8_DeadlockedIsNotSolvable ==
  out.op = "isDeadlocked" =>
    (out.result <=> (~out.solvable /\ TileCount(out.arg) > 0))

(* ------------------- GenSpec: the screen's board generator ------------ *)
\* generateSolvableBoard's default for maxAttempts
maxAttempts == 50

\* the boards generateBasicBoard(size, kinds) can return
generateBasicBoard(size, kinds) ==
  LET dims == getBoardDimensions(size)
  IN {Pack(s, dims[1], dims[2]) : s \in Shuffles(PairTiles(size, kinds))}

\* every order of the elements of the set S
Orders(S) ==
  {e \in [1..Cardinality(S) -> S] : \A i, j \in 1..Cardinality(S) : e[i] = e[j] => i = j}

\* the index pairs (i, j), i < j, of the shuffled empty positions that
\* findPath connects; findPath is called without a board, so it runs on the
\* component's current board
ConnectableIndexPairs(emptyPositions, componentBoard) ==
  {ij \in (DOMAIN emptyPositions) \X (DOMAIN emptyPositions) :
     /\ ij[1] < ij[2]
     /\ findPath(emptyPositions[ij[1]], emptyPositions[ij[2]], componentBoard).isValid}

\* the positions the nested loops return given the connected index pairs:
\* those of the pair reached first (i outer, j inner), else the first two
ReturnedPositions(emptyPositions, pairs) ==
  IF pairs = {} THEN {emptyPositions[i] : i \in 1..Min2(Len(emptyPositions), 2)}
  ELSE LET first == CHOOSE ij \in pairs : \A kl \in pairs :
                      ij[1] * Len(emptyPositions) + ij[2]
                        <= kl[1] * Len(emptyPositions) + kl[2]
       IN {emptyPositions[first[1]], emptyPositions[first[2]]}

\* the position pairs findBestPositionsForPair can return, over the orders
\* the shuffle can leave the empty positions in
findBestPositionsForPair(b, componentBoard) ==
  {ReturnedPositions(emptyPositions,
                     ConnectableIndexPairs(emptyPositions, componentBoard)) :
     emptyPositions \in Orders({p \in Positions(b) : Cell(b, p[1], p[2]) = 0})}

\* the boards one turn of the placement loop can leave: the pair is placed
\* on two positions that come back, or skipped when fewer than two do
PlacePair(b, tileType, componentBoard) ==
  {IF Cardinality(positions) >= 2
   THEN [r \in 1..Height(b) |->
           [c \in 1..Width(b) |->
              IF <<r - 1, c - 1>> \in positions THEN tileType ELSE b[r][c]]]
   ELSE b : positions \in findBestPositionsForPair(b, componentBoard)}

\* the boards the placement loop can end with, starting from one of boards
\* and placing the pairs in the order of tilePairs
RECURSIVE PlacePairs(_, _, _)
PlacePairs(boards, tilePairs, componentBoard) ==
  IF tilePairs = << >> THEN boards
  ELSE PlacePairs(UNION {PlacePair(b, Head(tilePairs), componentBoard) : b \in boards},
                  Tail(tilePairs), componentBoard)

\* the boards generateIntelligentBoard(size, kinds) can return
generateIntelligentBoard(size, kinds, componentBoard) ==
  LET dims == getBoardDimensions(size)
      empty == [r \in 1..dims[1] |-> [c \in 1..dims[2] |-> 0]]
      pairKinds == [i \in 1..(size \div 2) |-> ((i - 1) % kinds) + 1]
  IN UNION {PlacePairs({empty}, tilePairs, componentBoard) :
            tilePairs \in Shuffles(pairKinds)}

\* generateBoard(size, kinds) is called in some render of the screen: the
\* first one, where the store still holds its initial board [], or one after
\* the level was started
GenInit ==
  /\ StoreCreated \/ LevelStarted
  /\ \E level \in 1..NumLevels :
       inp = [size |-> getLevelSize(level), kinds |-> getLevelKinds(level)]
  /\ out = [op |-> "generateBoard", attempts |-> 0, done |-> FALSE, board |-> << >>,
            candidate |-> << >>, fallback |-> FALSE]

\* one turn of the do-while loop below the attempt limit
GenerateAttempt ==
  /\ out.op = "generateBoard"
  /\ ~out.done
  /\ out.attempts + 1 < maxAttempts
  /\ \E candidate \in generateBasicBoard(inp.size, inp.kinds) :
       out' = [op |-> "generateBoard", attempts |-> out.attempts + 1,
               done |-> isBoardSolvable(candidate, board), board |-> candidate,
               candidate |-> candidate, fallback |-> FALSE]
  /\ UNCHANGED <<gameVars, inp>>

\* the turn that reaches the attempt limit: the candidate is replaced by
\* generateIntelligentBoard's board, which is returned untested
GenerateFallback ==
  /\ out.op = "generateBoard"
  /\ ~out.done
  /\ out.attempts + 1 >= maxAttempts
  /\ \E candidate \in generateBasicBoard(inp.size, inp.kinds) :
       \E constructed \in generateIntelligentBoard(inp.size, inp.kinds, board) :
         out' = [op |-> "generateBoard", attempts |-> out.attempts + 1,
                 done |-> TRUE, board |-> constructed,
                 candidate |-> candidate, fallback |-> TRUE]
  /\ UNCHANGED <<gameVars, inp>>

GenNext == GenerateAttempt \/ GenerateFallback

GenSpec == GenInit /\ [][GenNext]_vars

\* C1: the board generateBoard returns has two tiles of one kind that
\* findPath connects on that board
C1_GeneratedBoardSolvable ==
  out.op = "generateBoard" /\ out.done => PairConnectable(out.board, out.board)

(* --------------------------- claims on the game ----------------------- *)
\* C2: in every reachable state of a level the number of non-empty cells of
\* the current board is even
C2_EvenTileCount == TileCount(board) % 2 = 0

\* C3: whenever a match removal clears two cells, both cells are non-empty
\* on the board of that moment, hold the same kind, and are connected by a
\* valid path on that board
C3_MatchRemovesValidPair ==
  lastMatch.kind = "match" =>
    LET b == lastMatch.board
        t1 == lastMatch.tile1
        t2 == lastMatch.tile2
    IN /\ Cell(b, t1.row, t1.col) # 0
       /\ Cell(b, t2.row, t2.col) # 0
       /\ Cell(b, t1.row, t1.col) = Cell(b, t2.row, t2.col)
       /\ findPath(<<t1.row, t1.col>>, <<t2.row, t2.col>>, b).isValid

\* C12: in every reachable state the current board is a fixed point of the
\* reflow of the current level's layout
C12_BoardIsReflowFixedPoint ==
  applyGravityEffect(board, getLevelLayout(currentLevel)) = board

\* the board left by clearing targets from b and reflowing under the current
\* level's layout is empty or has a connectable pair
SafeTargets(b, targets) ==
  (TileCount(simulateRemovalAndGravity(b, targets, getLevelLayout(currentLevel))) = 0)
  \/ PairConnectable(simulateRemovalAndGravity(b, targets, getLevelLayout(currentLevel)),
                     simulateRemovalAndGravity(b, targets, getLevelLayout(currentLevel)))

ShufSize == 12
ShufKinds == 4
ShufMatches == 2

\* one of the boards generateGameBoard(ShufSize, ShufKinds) can return
ShufStart ==
  << <<1, 1, 1, 2>>,
     <<2, 2, 3, 4>>,
     <<3, 4, 2, 1>> >>

\* the boards one successful match can leave: a connected pair of one kind is
\* cleared and the board reflowed
MatchedBoards(b, layout) ==
  LET tiles == Tiles(b)
      pairs == {pr \in (DOMAIN tiles) \X (DOMAIN tiles) :
                  /\ pr[1] < pr[2]
                  /\ Cell(b, tiles[pr[1]][1], tiles[pr[1]][2])
                       = Cell(b, tiles[pr[2]][1], tiles[pr[2]][2])
                  /\ findPath(tiles[pr[1]], tiles[pr[2]], b).isValid}
  IN {applyGravityEffect(Cleared(b, {tiles[pr[1]], tiles[pr[2]]}), layout) : pr \in pairs}

RECURSIVE BoardsAfterMatches(_, _, _)
BoardsAfterMatches(boards, n, layout) ==
  IF n = 0 THEN boards
  ELSE BoardsAfterMatches(UNION {MatchedBoards(b, layout) : b \in boards}, n - 1, layout)

ShuffleInit ==
  /\ currentLevel = 1
  /\ maxLevel = 1
  /\ bambooBalance = 0
  /\ inventory = [hint |-> InitHint, bomb |-> InitBomb, shuffle |-> InitShuffle]
  /\ Height(ShufStart) = getBoardDimensions(ShufSize)[1]
  /\ Width(ShufStart) = getBoardDimensions(ShufSize)[2]
  /\ Flatten(ShufStart) \in Shuffles(PairTiles(ShufSize, ShufKinds))
  /\ gameState \in {[isPlaying |-> TRUE,
                     timeRemaining |-> calculateTimeLimit(1),
                     heartsRemaining |-> calculateHearts(1),
                     board |-> b] :
                      b \in BoardsAfterMatches({ShufStart}, ShufMatches, getLevelLayout(1))}
  /\ selectedTiles = << >>
  /\ currentLevelBamboo = 0
  /\ showModal = "none"
  /\ bombJobs = << >>
  /\ lastMatch = NoMatch
  /\ inp = NoCall
  /\ out = NoCall

\* the bomb case of handleUseTool picks its targets on the current board
PressBomb ==
  /\ out = NoCall
  /\ \E targets \in BombTargets(board, getBombRemoveCount(ShufSize),
                                getLevelLayout(currentLevel), board) :
       out' = [op |-> "bomb", targets |-> targets]
  /\ UNCHANGED <<gameVars, inp>>

\* executeBombDestruction: the targets are cleared, the board reflowed and,
\* when it is deadlocked, handed to shuffleUntilSolvable
CallShuffleUntilSolvable ==
  /\ out.op = "bomb"
  /\ isDeadlocked(simulateRemovalAndGravity(board, out.targets, getLevelLayout(currentLevel)))
  /\ \E result \in shuffleUntilSolvable(
                     simulateRemovalAndGravity(board, out.targets, getLevelLayout(currentLevel)),
                     getLevelLayout(currentLevel), board) :
       out' = [op |-> "shuffleUntilSolvable",
               currentBoard |-> simulateRemovalAndGravity(board, out.targets,
                                                          getLevelLayout(currentLevel)),
               result |-> result]
  /\ UNCHANGED <<gameVars, inp>>

ShuffleNext == PressBomb \/ CallShuffleUntilSolvable

ShuffleSpec == ShuffleInit /\ [][ShuffleNext]_vars

SameTiles(b1, b2) ==
  \A k \in Range(Flatten(b1)) \cup Range(Flatten(b2)) :
    Count(Flatten(b1), k) = Count(Flatten(b2), k)

\* C14: shuffleUntilSolvable(b, maxTries) returns b unchanged, or a board with
\* the same tiles as b that has a connectable same-kind pair; it never returns
\* a rearranged board that is deadlocked
C14_ShuffleSolvableOrUnchanged ==
  out.op = "shuffleUntilSolvable" =>
    \/ out.result = out.currentBoard
    \/ /\ SameTiles(out.result, out.currentBoard)
       /\ PairConnectable(out.result, out.result)

(* ----------------------- the capped retry loops ----------------------- *)
\* selectBombTargetsEnsuringSolvable's default for maxAttempts, and the
\* maxTries executeBombDestruction passes to shuffleUntilSolvable
bombMaxAttempts == 120
maxTries == 25

\* mutant: the loop goes one turn beyond its cap
LoopContinuesInclusive(attempt, cap) == attempt <= cap

\* the for loops' condition attempt < cap
LoopContinues(attempt, cap) == attempt < cap

\* the deadlocked boards executeBombDestruction can hand to shuffleUntilSolvable
DeadlockedAfterBomb(b, layout) ==
  {fb \in {simulateRemovalAndGravity(b, t, layout) :
             t \in BombTargets(b, getBombRemoveCount(getLevelSize(currentLevel)), layout, b)} :
     isDeadlocked(fb)}

RetryInit ==
  \/ GenInit
  \/ /\ LevelStarted
     /\ inp = [currentBoard |-> board,
               removeCount |-> getBombRemoveCount(getLevelSize(currentLevel))]
     /\ out = [op |-> "selectBombTargetsEnsuringSolvable", attempts |-> 0,
               done |-> Len(Tiles(board)) = 0, found |-> TRUE, targets |-> {}]
  \/ /\ LevelStarted
     /\ \E fb \in DeadlockedAfterBomb(board, getLevelLayout(currentLevel)) :
          inp = [currentBoard |-> fb]
     /\ out = [op |-> "shuffleUntilSolvable", attempts |-> 0, done |-> FALSE,
               board |-> inp.currentBoard]

\* one turn of selectBombTargetsEnsuringSolvable's loop: a sampled subset is
\* returned when its simulated board passes; null once the cap is reached
BombSample ==
  /\ out.op = "selectBombTargetsEnsuringSolvable"
  /\ ~out.done
  /\ LoopContinues(out.attempts, bombMaxAttempts)
  /\ \E candidate \in RandomSubsets(inp.currentBoard, inp.removeCount) :
       IF isBoardSolvable(simulateRemovalAndGravity(inp.currentBoard, candidate,
                                                    getLevelLayout(currentLevel)), board)
       THEN out' = [out EXCEPT !.attempts = @ + 1, !.done = TRUE,
                               !.found = TRUE, !.targets = candidate]
       ELSE out' = [out EXCEPT !.attempts = @ + 1,
                               !.done = ~LoopContinues(out.attempts + 1, bombMaxAttempts),
                               !.found = FALSE]
  /\ UNCHANGED <<gameVars, inp>>

\* one turn of shuffleUntilSolvable's loop: the shuffled and reflowed board is
\* returned when it passes; currentBoard once the cap is reached
ShuffleTry ==
  /\ out.op = "shuffleUntilSolvable"
  /\ ~out.done
  /\ LoopContinues(out.attempts, maxTries)
  /\ \E afterGravity \in ShuffledBoards(inp.currentBoard, getLevelLayout(currentLevel)) :
       IF isBoardSolvable(afterGravity, board)
       THEN out' = [out EXCEPT !.attempts = @ + 1, !.done = TRUE, !.board = afterGravity]
       ELSE out' = [out EXCEPT !.attempts = @ + 1,
                               !.done = ~LoopContinues(out.attempts + 1, maxTries)]
  /\ UNCHANGED <<gameVars, inp>>

RetryNext == GenerateAttempt \/ GenerateFallback \/ BombSample \/ ShuffleTry

RetrySpec == RetryInit /\ [][RetryNext]_vars

LoopCap ==
  IF out.op = "generateBoard" THEN maxAttempts
  ELSE IF out.op = "selectBombTargetsEnsuringSolvable" THEN bombMaxAttempts
  ELSE maxTries

\* C15: each retry loop makes at most as many attempts as its cap, and has
\* returned once the cap is reached: generateSolvableBoard maxAttempts random
\* boards, selectBombTargetsEnsuringSolvable maxAttempts subsets (then null),
\* shuffleUntilSolvable maxTries shuffles (then its input)
C15_LoopsEndWithinCap ==
  /\ out.attempts <= LoopCap
  /\ out.attempts = LoopCap => out.done
  /\ out.op = "selectBombTargetsEnsuringSolvable" /\ out.done /\ ~out.found
       => out.attempts = bombMaxAttempts

\* the bomb's selector gave up with null after its last permitted sample
C15_Witness ==
  /\ out.op = "selectBombTargetsEnsuringSolvable"
  /\ out.done /\ ~out.found
  /\ out.attempts = bombMaxAttempts

(* ------------------------- the bomb's write --------------------------- *)
\* C16: the board a bomb's destruction callback writes holds the tiles of the
\* board current at that moment with the bomb's targets cleared, so no match
\* made in the meantime is undone or lost
C16_BombWritesCurrentBoard ==
  [][\A i \in DOMAIN bombJobs :
       BombGravity(i) =>
         SameTiles(gameState'.board,
                   applyGravityEffect(Cleared(board, bombJobs[i].targets),
                                      getLevelLayout(currentLevel)))]_vars

(* ----------------------- the modal after a match ---------------------- *)
\* C17: right after a successful match the 'deadlock' modal is shown exactly
\* when the board left by removal and reflow is non-empty and has no
\* connectable same-kind pair; when that board is empty the 'complete' modal
\* is shown instead
C17_ModalAfterMatch ==
  lastMatch.kind = "match" =>
    /\ showModal = "deadlock" <=> (TileCount(board) > 0 /\ ~PairConnectable(board, board))
    /\ TileCount(board) = 0 => showModal = "complete"

\* a match has just left a non-empty board without a connectable pair
C17_Witness ==
  /\ lastMatch.kind = "match"
  /\ TileCount(board) > 0
  /\ ~PairConnectable(board, board)
  /\ showModal = "deadlock"

(* ------------------ the modal after a bomb or shuffle ----------------- *)
\* C18: whenever the shuffle tool or a bomb's destruction callback leaves a
\* non-empty board without a connectable same-kind pair, the 'deadlock'
\* modal is shown
C18_DeadlockShownAfterTool ==
  [][(UseShuffle \/ \E i \in DOMAIN bombJobs : BombGravity(i)) =>
       (TileCount(gameState'.board) > 0
        /\ ~PairConnectable(gameState'.board, gameState'.board)
          => showModal' = "deadlock")]_vars

(* ------------------------ the level's first board --------------------- *)
\* C19: the board startLevel installs has a connectable same-kind pair,
\* whatever order the shuffle left the tiles in (under OracleSpec the board
\* stays the one startLevel installed)
C19_StartBoardSolvable ==
  gameState.isPlaying => TileCount(board) > 0 /\ PairConnectable(board, board)

(* ------------------------- getBoardDimensions ------------------------- *)
DimMaxSize == 120

DimInit ==
  /\ StoreCreated
  /\ inp \in {[size |-> 2 * h] : h \in 1..(DimMaxSize \div 2)}
  /\ out = NoCall

CallGetBoardDimensions ==
  /\ out = NoCall
  /\ out' = [op |-> "getBoardDimensions", size |-> inp.size,
             result |-> getBoardDimensions(inp.size)]
  /\ UNCHANGED <<gameVars, inp>>

DimNext == CallGetBoardDimensions

DimSpec == DimInit /\ [][DimNext]_vars

\* C20: for every even size getBoardDimensions(size) returns [rows, cols]
\* with rows * cols = size and rows <= cols, and no other such factor pair
\* has a smaller difference; 20 gives [4,5], 60 gives [6,10], 80 gives [8,10]
C20_MostSquareDimensions ==
  out.op = "getBoardDimensions" =>
    LET rows == out.result[1]
        cols == out.result[2]
    IN /\ rows * cols = out.size
       /\ rows <= cols
       /\ \A a \in 1..out.size : \A b \in a..out.size :
            a * b = out.size => cols - rows <= b - a
       /\ out.size = 20 => out.result = <<4, 5>>
       /\ out.size = 60 => out.result = <<6, 10>>
       /\ out.size = 80 => out.result = <<8, 10>>

\* the size of levels 2 to 6 was asked for and answered with 6 rows of 10
C20_Witness ==
  /\ out.op = "getBoardDimensions"
  /\ out.size = 60
  /\ out.result = <<6, 10>>

(* -------------------- the three board generators ---------------------- *)
GenMaxPairs == 3
GenMaxKinds == 3

\* a generator is called for a size and a number of kinds, in the first
\* render, whose board is the store's initial []
BoardGenInit ==
  /\ StoreCreated
  /\ inp \in {[size |-> 2 * h, kinds |-> k] : h \in 1..GenMaxPairs, k \in 1..GenMaxKinds}
  /\ out = NoCall

CallGenerateBasicBoard ==
  /\ out = NoCall
  /\ \E b \in generateBasicBoard(inp.size, inp.kinds) :
       out' = [op |-> "generateBasicBoard", board |-> b]
  /\ UNCHANGED <<gameVars, inp>>

CallGenerateIntelligentBoard ==
  /\ out = NoCall
  /\ \E b \in generateIntelligentBoard(inp.size, inp.kinds, board) :
       out' = [op |-> "generateIntelligentBoard", board |-> b]
  /\ UNCHANGED <<gameVars, inp>>

CallGenerateGameBoard ==
  /\ out = NoCall
  /\ \E b \in generateGameBoard(inp.size, inp.kinds) :
       out' = [op |-> "generateGameBoard", board |-> b]
  /\ UNCHANGED <<gameVars, inp>>

BoardGenNext ==
  CallGenerateBasicBoard \/ CallGenerateIntelligentBoard \/ CallGenerateGameBoard

BoardGenSpec == BoardGenInit /\ [][BoardGenNext]_vars

\* C21: every generated board has all size cells filled with kinds among the
\* first `kinds`, an even number of tiles of each kind, and the counts of any
\* two kinds differ by at most 2
C21_GeneratedBoardWellFormed ==
  out # NoCall =>
    /\ Height(out.board) * Width(out.board) = inp.size
    /\ \A p \in Positions(out.board) : Cell(out.board, p[1], p[2]) \in 1..inp.kinds
    /\ \A k \in 1..inp.kinds : Count(Flatten(out.board), k) % 2 = 0
    /\ \A k1, k2 \in 1..inp.kinds :
         Count(Flatten(out.board), k1) - Count(Flatten(out.board), k2) <= 2

\* the constructive fallback returned a six-cell board of two kinds, one kind
\* on four cells and the other on two
C21_Witness ==
  /\ out # NoCall
  /\ out.op = "generateIntelligentBoard"
  /\ inp.size = 6 /\ inp.kinds = 2
  /\ Count(Flatten(out.board), 1) = 4
  /\ Count(Flatten(out.board), 2) = 2

(* --------------------- tools and the time and hearts ------------------ *)
\* C22: no step of a tool use (hint, shuffle, bomb press, the bomb's timers
\* and its destruction callback) decreases timeRemaining or heartsRemaining
C22_ToolsKeepTimeAndHearts ==
  [][(\/ UseHint
      \/ UseShuffle
      \/ UseBomb
      \/ \E i \in DOMAIN bombJobs : BombAdvance(i)
      \/ \E i \in DOMAIN bombJobs : BombGravity(i)) =>
       /\ gameState'.timeRemaining >= gameState.timeRemaining
       /\ gameState'.heartsRemaining >= gameState.heartsRemaining]_vars

(* ---------------------- the returned waypoints ------------------------ *)
Walk(tile1, path, tile2) == << tile1 >> \o path \o << tile2 >>

Adjacent(p, q) ==
  \/ p[1] = q[1] /\ (p[2] - q[2] = 1 \/ q[2] - p[2] = 1)
  \/ p[2] = q[2] /\ (p[1] - q[1] = 1 \/ q[1] - p[1] = 1)

DirectionChanges(w) ==
  Cardinality({i \in 2..(Len(w) - 1) :
                 <<w[i][1] - w[i - 1][1], w[i][2] - w[i - 1][2]>>
                   # <<w[i + 1][1] - w[i][1], w[i + 1][2] - w[i][2]>>})

\* C23: for a valid findPath result the cells A, the waypoints in returned
\* order, B form a walk of orthogonally adjacent cells, every waypoint is
\* empty or off the board, and the walk changes direction `turns` times
C23_PathIsWalk ==
  out.op = "findPath" /\ out.result.isValid =>
    LET w == Walk(out.tile1, out.result.path, out.tile2)
    IN /\ \A i \in 1..(Len(w) - 1) : Adjacent(w[i], w[i + 1])
       /\ \A i \in DOMAIN out.result.path :
            isEmpty(out.result.path[i][1], out.result.path[i][2], inp.board)
       /\ DirectionChanges(w) = out.result.turns

(* ------------------------ tiles on one outer edge --------------------- *)
SameOuterEdge(t1, t2, b) ==
  \/ t1[1] = 0 /\ t2[1] = 0
  \/ t1[1] = Height(b) - 1 /\ t2[1] = Height(b) - 1
  \/ t1[2] = 0 /\ t2[2] = 0
  \/ t1[2] = Width(b) - 1 /\ t2[2] = Width(b) - 1

\* C24: two distinct tiles on the same outer edge of the board (first or last
\* row, first or last column) are connected by findPath with at most 2
\* turns, whatever the other cells hold
C24_EdgeTilesConnectable ==
  out.op = "findPath" /\ SameOuterEdge(out.tile1, out.tile2, inp.board) =>
    out.result.isValid /\ out.result.turns \in 0..2

\* the two ends of the last column of a full board, joined around the outside
C24_Witness ==
  /\ out.op = "findPath"
  /\ out.tile1[2] = Width(inp.board) - 1 /\ out.tile2[2] = Width(inp.board) - 1
  /\ out.tile1[1] = 0 /\ out.tile2[1] = Height(inp.board) - 1
  /\ TileCount(inp.board) = Height(inp.board) * Width(inp.board)
  /\ out.result.isValid /\ out.result.turns = 2

(* -------------------- the cells a shuffle fills ----------------------- *)
Occupied(b) == {p \in Positions(b) : Cell(b, p[1], p[2]) # 0}

\* C25: wherever the shuffle tool can be used, the board it fills from the
\* shuffled tiles has, before the reflow, exactly the occupied cells of the
\* board it was given
C25_ShuffleKeepsCells ==
  showModal \in {"none", "deadlock", "view-deadlock"} /\ inventory.shuffle > 0 =>
    \A tiles \in Shuffles(Flatten(board)) :
      Occupied(Pack(tiles, Height(board), Width(board))) = Occupied(board)

(* ------------------- the generator's attempt budget ------------------- *)
\* C26: generateSolvableBoard tests up to maxAttempts shuffled boards and
\* returns the first that passes; the constructive fallback is used only
\* when the last shuffled board, like all before it, failed the test
C26_FallbackOnlyAfterFailures ==
  out.op = "generateBoard" /\ out.done =>
    IF out.fallback
    THEN out.attempts = maxAttempts /\ ~isBoardSolvable(out.candidate, board)
    ELSE out.board = out.candidate /\ isBoardSolvable(out.candidate, board)

(* ------------- findBestPositionsForPair during construction ----------- *)
PlaceRows == 2
PlaceCols == 4

\* generateIntelligentBoard's board after its first pair, in the first
\* render: findPath then runs on the store's initial board [], where every
\* two cells are connected, so the first pair can lie on any two cells
PlaceInit ==
  /\ StoreCreated
  /\ inp \in {[board |-> b] : b \in {x \in AllBoards(PlaceRows, PlaceCols, 1) : TileCount(x) = 2}}
  /\ out = NoCall

CallFindBestPositionsForPair ==
  /\ out = NoCall
  /\ \E positions \in findBestPositionsForPair(inp.board, board) :
       out' = [op |-> "findBestPositionsForPair", positions |-> positions]
  /\ UNCHANGED <<gameVars, inp>>

PlaceNext == CallFindBestPositionsForPair

PlaceSpec == PlaceInit /\ [][PlaceNext]_vars

\* C27: the two cells findBestPositionsForPair returns for a pair are
\* distinct and empty on the board under construction, and findPath connects
\* them on that board whenever it connects any two of its empty cells
C27_PlacedOnConnectableCells ==
  out.op = "findBestPositionsForPair" =>
    LET empties == Positions(inp.board) \ Occupied(inp.board)
    IN /\ Cardinality(out.positions) = 2
       /\ out.positions \subseteq empties
       /\ (\E p, q \in empties : p # q /\ findPath(p, q, inp.board).isValid)
            => \E p, q \in out.positions : p # q /\ findPath(p, q, inp.board).isValid

(* ------------------------ invalid selections -------------------------- *)
\* a press on (row, col) that is a second selection of another tile which
\* differs in kind from the selected cell, or has no valid path to it
InvalidSecondSelection(row, col) ==
  /\ Len(selectedTiles) = 1
  /\ <<selectedTiles[1].row, selectedTiles[1].col>> # <<row, col>>
  /\ \/ Cell(board, selectedTiles[1].row, selectedTiles[1].col) # Cell(board, row, col)
     \/ ~findPath(<<selectedTiles[1].row, selectedTiles[1].col>>, <<row, col>>, board).isValid

\* C28: an invalid second selection costs exactly one heart, clears the
\* selection and leaves the board unchanged; the 'failed' modal is shown as
\* soon as the hearts reach 0; a tile press changes nothing while a modal is
\* shown; the hearts are never negative
C28_InvalidSelectionCostsOneHeart ==
  [][\A row \in 0..(Height(board) - 1) : \A col \in 0..(Width(board) - 1) :
       handleTilePress(row, col) =>
         /\ showModal = "none"
         /\ gameState'.heartsRemaining >= 0
         /\ InvalidSecondSelection(row, col) =>
              /\ gameState'.heartsRemaining = gameState.heartsRemaining - 1
              /\ selectedTiles' = << >>
              /\ gameState'.board = gameState.board
              /\ gameState'.heartsRemaining = 0 => showModal' = "failed"]_vars

(* ------------------------ tiles of each kind -------------------------- *)
\* C29: in every reachable state of a level each tile kind occurs an even
\* number of times on the current board
C29_EvenCountPerKind ==
  \A k \in 1..getLevelKinds(currentLevel) : Count(Flatten(board), k) % 2 = 0

(* ----------------------- bamboo of a completed level ------------------ *)
\* C30: when a level is completed, the bamboo added to bambooBalance is the
\* sum of the bamboo earned by every match of the level, the final match
\* included (currentLevelBamboo after that match)
C30_CompletionPaysAllBamboo ==
  [][showModal # "complete" /\ showModal' = "complete" =>
       bambooBalance' = bambooBalance + currentLevelBamboo']_vars

====
